---- MODULE Spec2Model ----
(***************************************************************************)
(* Streaming speech-to-text clients: scripts/stt_from_file_rust_server.py  *)
(* (file mode) and scripts/stt_from_mic_rust_server.py (live capture).     *)
(*                                                                         *)
(* One session is modelled as the asyncio tasks it is made of:             *)
(*   main          stream_audio, the coordinator                           *)
(*   send_task     send_messages                                           *)
(*   receive_task  receive_messages                                        *)
(*   shield        the tasks asyncio.shield() wraps around the trailer     *)
(*                 coroutine (send_stream_end / finish_stream)             *)
(*   shutdown      the task asyncio.shield() wraps around                  *)
(*                 _shutdown_session                                       *)
(* A step of a task runs the coroutine from one suspension point (an await *)
(* that yields to the event loop) to the next.  task.cancel() marks the    *)
(* task (must_cancel); the task's next step then raises CancelledError at  *)
(* the await it is suspended in.  A frame is recorded in `sent` when       *)
(* websocket.send() has written it.                                        *)
(***************************************************************************)
EXTENDS Integers, Sequences, FiniteSets, TLC

\* ------------------------------------------------------------ constants
SAMPLE_RATE == 24000
FRAME_SIZE == 1920
WS_CLOSE_REASON == "client finished streaming"
\* range(5) and range(35) of the trailer, and the close code
K_PRE == 5
K_POST == 35
CLOSE_CODE == 1000

\* ------------------------------------------------------------ bounds
\* source blocks of a file
MaxBlocks == 2
\* external cancellations of stream_audio
MaxCancels == 2
\* frames the server sends within a session
MaxSessionFrames == 1
\* SIGINTs delivered while stop_event is clear
MaxSigints == 1
\* blocks the capture device produces (live mode)
MaxCaptured == 1

VARIABLES
    mode,          \* "file" | "mic": which script runs
    audio_len,     \* len(audio_data), in samples (file mode)
    ws,            \* websocket state: "connecting" | "open" | "closing" | "closed"
    ws_close,      \* how it closed: "none" | "ok" | "error"
    sent,          \* frames the client has written, in order
    send_task,     \* [pc, i, k, exc, must_cancel, result]
    stream_closed, \* send_messages.stream_closed (file mode)
    finalized,     \* send_messages.finalized (mic mode)
    shield,        \* the shielded trailer tasks: [exc |-> [st, k], fin |-> [st, k]]
    receive_task,  \* [pc, must_cancel, result]
    transcript,    \* receive_messages.transcript
    received,      \* frames the receiver has consumed, in order (history)
    n_inbound,     \* frames the server has delivered
    main,          \* [pc, exc, must_cancel, result]
    cancelled,     \* stream_audio.cancelled (file mode)
    gather_exc,    \* exception the un-shielded gather future was completed with (mic)
    shutdown,      \* pc of the _shutdown_session task
    n_cancels,     \* external cancellations so far
    audio_queue,   \* asyncio.Queue of captured blocks, 0 is the None sentinel
    ready,         \* callbacks handed over with loop.call_soon_threadsafe
    stop_event,    \* asyncio.Event
    produced,      \* blocks the capture callback has produced
    sigints,       \* SIGINTs handled
    rtf,           \* send_messages' rtf argument (file mode)
    now,           \* time.time(), in ticks
    start_time,    \* send_messages.start_time
    wake,          \* when the pending asyncio.sleep() ends
    message,       \* a wire message handed to the codec
    packed,        \* msgpack.packb(message, use_single_float=True)
    unpacked,      \* msgpack.unpackb(packed, raw=False)
    show_vad,      \* receive_messages' show_vad argument (mic mode)
    speech_started, \* receive_messages.speech_started (mic mode)
    printed,       \* what the live receiver has printed, in order
    output_queue,  \* the TTS client's output_queue, EndOfAudio is the None sentinel
    output_audio_task, \* [pc, result] of the TTS client's output_audio
    frames,        \* output_audio.frames
    wav            \* [samples] that sphn.write_wav was given, NoFile before

vars == <<mode, audio_len, ws, ws_close, sent, send_task, stream_closed, finalized,
          shield, receive_task, transcript, received, n_inbound, main, cancelled,
          gather_exc, shutdown, n_cancels, audio_queue, ready, stop_event,
          produced, sigints, rtf, now, start_time, wake, message, packed, unpacked,
          show_vad, speech_started, printed, output_queue, output_audio_task, frames,
          wav>>

vadVars == <<show_vad, speech_started, printed>>
ttsVars == <<output_queue, output_audio_task, frames, wav>>
clockVars == <<now, start_time, wake>>
codecVars == <<message, packed, unpacked>>

micVars == <<audio_queue, ready, stop_event, produced, sigints>>

\* ------------------------------------------------------------ frames
\* pcm 0 is SILENCE_SECOND, pcm b >= 1 is source block b
Audio(b) == [type |-> "Audio", pcm |-> b]
Silence == Audio(0)
marker_msg == [type |-> "Marker", id |-> 0]
CloseFrame(reason) == [type |-> "Close", code |-> CLOSE_CODE, reason |-> reason]

TrailerLen == K_PRE + 1 + K_POST

\* occurrences of frame f in seq
Count(seq, f) == Cardinality({i \in 1 .. Len(seq) : seq[i] = f})

\* ------------------------------------------------------------ codec
\* A Python float is a double.  It is modelled by its value counted in units
\* of the last place of a double (52 fraction bits).  packb with
\* use_single_float=True writes it as a float 32, which keeps 23 fraction
\* bits: the value is rounded to a multiple of 2^29, ties to even.
F32_STEP == 536870912

ToSingle(x) ==
    LET q == x \div F32_STEP
        r == x % F32_STEP
        half == F32_STEP \div 2
    IN IF r < half THEN q * F32_STEP
       ELSE IF r > half THEN (q + 1) * F32_STEP
            ELSE (IF q % 2 = 0 THEN q ELSE q + 1) * F32_STEP

\* doubles, and those of them a float32 holds exactly
Floats == {0, 1, F32_STEP \div 2, F32_STEP, F32_STEP + 1, 2 * F32_STEP}
Singles == {x \in Floats : x % F32_STEP = 0}

\* the Python type of the value the wire messages carry under each key
FieldKind(key) ==
    CASE key \in {"type", "text"} -> "str"
      [] key \in {"start_time", "stop_time"} -> "float"
      [] key \in {"pcm", "prs"} -> "list"
      [] key = "id" -> "int"

\* msgpack.packb(obj, use_single_float=True) of one value: its format and payload
PackValue(kind, v) ==
    CASE kind = "str" -> [fmt |-> "str", val |-> v]
      [] kind = "int" -> [fmt |-> "uint", val |-> v]
      [] kind = "float" -> [fmt |-> "float 32", val |-> ToSingle(v)]
      [] kind = "list" ->
            [fmt |-> "array",
             val |-> [i \in DOMAIN v |-> [fmt |-> "float 32", val |-> ToSingle(v[i])]]]

\* msgpack.unpackb(bytes, raw=False) of one value: a float 32 widens to a
\* double of the same value, a str is decoded to str
UnpackValue(b) ==
    IF b.fmt = "array" THEN [i \in DOMAIN b.val |-> b.val[i].val] ELSE b.val

\* a dict is packed as a map, key by key
packb(msg) == [key \in DOMAIN msg |-> PackValue(FieldKind(key), msg[key])]
unpackb(bytes) == [key \in DOMAIN bytes |-> UnpackValue(bytes[key])]

NoMessage == [none |-> TRUE]

\* What the trailer coroutine does when it is resumed after its k-th frame
\* (k = 0: when it starts): the frame it writes next, or "return".
TrailerNext(k) ==
    IF k < K_PRE
    THEN IF ws = "open" THEN "Audio" ELSE "return"
    ELSE IF k = K_PRE
         THEN IF ws = "open" THEN "Marker" ELSE "return"
         ELSE IF k < TrailerLen
              THEN IF ws = "open" THEN "Audio" ELSE "return"
              ELSE "return"

TrailerFrame(k) == IF TrailerNext(k) = "Marker" THEN marker_msg ELSE Silence

\* ------------------------------------------------------------ tasks
NewTask == [pc |-> "none", i |-> 0, k |-> 0, exc |-> "none",
            must_cancel |-> FALSE, result |-> "none"]
NoShield == [st |-> "none", k |-> 0]

Done(t) == t.pc = "done"
Running(t) == t.pc \notin {"none", "done"}

\* gather(send_task, receive_task) without return_exceptions completes with
\* the first exception or cancellation of a child.
GatherNote(result) ==
    IF mode = "mic" /\ gather_exc = "none" /\ result # "ok" THEN result ELSE gather_exc

Finish(t, result) == [t EXCEPT !.pc = "done", !.result = result, !.must_cancel = FALSE,
                               !.exc = "none"]


\* ------------------------------------------------------------ sender
\* What a step of send_task leaves alone.
SenderFrame ==
    UNCHANGED <<mode, audio_len, ws, ws_close, receive_task, transcript, received,
                n_inbound, main, cancelled, shutdown, n_cancels, ready, stop_event,
                produced, sigints, rtf, message, packed, unpacked,
                vadVars, ttsVars>>

TrailerFlag == IF mode = "file" THEN stream_closed ELSE finalized

\* `finally: await asyncio.shield(send_stream_end())`, reached with exception
\* exc in flight ("none": the try block or a handler returned).
EnterFinally(t, exc) ==
    /\ send_task' = [t EXCEPT !.pc = "finally", !.exc = exc, !.must_cancel = FALSE]
    /\ shield' = [shield EXCEPT !.fin = [st |-> "start", k |-> 0]]

\* `except asyncio.CancelledError: await asyncio.shield(send_stream_end())`
EnterExcept(t) ==
    /\ send_task' = [t EXCEPT !.pc = "except", !.must_cancel = FALSE]
    /\ shield' = [shield EXCEPT !.exc = [st |-> "start", k |-> 0]]

\* send_stream_end() called directly by send_messages (file mode), resumed
\* after its k-th frame.
DirectTrailerResume(t, k) ==
    IF TrailerNext(k) = "return"
    THEN EnterFinally(t, "none") /\ UNCHANGED sent
    ELSE /\ sent' = Append(sent, TrailerFrame(k))
         /\ send_task' = [t EXCEPT !.pc = "trailer", !.k = k + 1]
         /\ UNCHANGED shield

\* `await send_stream_end()` after the for loop.
DirectTrailerStart(t) ==
    IF stream_closed
    THEN EnterFinally(t, "none") /\ UNCHANGED <<sent, stream_closed>>
    ELSE stream_closed' = TRUE /\ DirectTrailerResume(t, 0)

\* FileLoop that stops before a last, partial block
FileLoopWholeBlocks(t, i) ==
    IF i + FRAME_SIZE <= audio_len
    THEN IF ws = "open"
         THEN /\ sent' = Append(sent, Audio((i \div FRAME_SIZE) + 1))
              /\ send_task' = [t EXCEPT !.pc = "send", !.i = i]
              /\ UNCHANGED <<stream_closed, shield>>
         ELSE EnterFinally(t, "ConnectionClosed") /\ UNCHANGED <<sent, stream_closed>>
    ELSE DirectTrailerStart(t)

\* Time is counted in ticks of 1 / (SAMPLE_RATE * TICKS_PER_SAMPLE) seconds.
TICKS_PER_SAMPLE == 2
\* asyncio.sleep(0.001)
MS == (SAMPLE_RATE * TICKS_PER_SAMPLE) \div 1000
Rtfs == {1, 2}

\* expected_send_time after the block at offset i was sent
expected_send_time(i) == start_time + ((i + 1) * TICKS_PER_SAMPLE) \div rtf

\* When the sleep that follows the block at offset i ends, at the earliest.
SleepUntil(i) ==
    IF now < expected_send_time(i) THEN expected_send_time(i) ELSE now + MS

\* The for loop of send_messages from offset i, up to its next suspension.
FileLoop(t, i) ==
    IF i < audio_len
    THEN IF ws = "open"
         THEN /\ sent' = Append(sent, Audio((i \div FRAME_SIZE) + 1))
              /\ send_task' = [t EXCEPT !.pc = "send", !.i = i]
              /\ UNCHANGED <<stream_closed, shield>>
         ELSE EnterFinally(t, "ConnectionClosed") /\ UNCHANGED <<sent, stream_closed>>
    ELSE DirectTrailerStart(t)

\* First step of the file sender: the lead-in silence, outside the try block.
FileSendStart ==
    /\ mode = "file" /\ send_task.pc = "init" /\ ~send_task.must_cancel
    /\ IF ws = "open"
       THEN /\ sent' = Append(sent, Silence)
            /\ send_task' = [send_task EXCEPT !.pc = "leadin"]
       ELSE /\ send_task' = Finish(send_task, "ConnectionClosed")
            /\ UNCHANGED sent
    /\ UNCHANGED <<stream_closed, finalized, shield, gather_exc, audio_queue>>
    /\ UNCHANGED clockVars
    /\ SenderFrame

\* Resumed from the lead-in send (start_time = time.time()) or from the
\* pacing sleep, which ends no earlier than it was set to: next iteration.
FileSendLoop ==
    /\ mode = "file" /\ send_task.pc \in {"leadin", "sleep"} /\ ~send_task.must_cancel
    /\ FileLoop(send_task, IF send_task.pc = "leadin" THEN 0 ELSE send_task.i + FRAME_SIZE)
    /\ IF send_task.pc = "leadin"
       THEN start_time' = now /\ UNCHANGED <<now, wake>>
       ELSE now' = (IF now < wake THEN wake ELSE now) /\ UNCHANGED <<start_time, wake>>
    /\ UNCHANGED <<finalized, gather_exc, audio_queue>>
    /\ SenderFrame

\* Resumed from the send of a source block: the pacing sleep.
FileSendSleep ==
    /\ mode = "file" /\ send_task.pc = "send" /\ ~send_task.must_cancel
    /\ send_task' = [send_task EXCEPT !.pc = "sleep"]
    /\ wake' = SleepUntil(send_task.i)
    /\ UNCHANGED <<now, start_time>>
    /\ UNCHANGED <<sent, stream_closed, finalized, shield, gather_exc, audio_queue>>
    /\ SenderFrame

\* Resumed inside the directly awaited send_stream_end().
FileSendTrailer ==
    /\ mode = "file" /\ send_task.pc = "trailer" /\ ~send_task.must_cancel
    /\ DirectTrailerResume(send_task, send_task.k)
    /\ UNCHANGED <<stream_closed, finalized, gather_exc, audio_queue>>
    /\ UNCHANGED clockVars
    /\ SenderFrame

\* The live sender from `audio_data = await audio_queue.get()` with queue q.
MicLoop(t, q) ==
    IF q = <<>>
    THEN /\ send_task' = [t EXCEPT !.pc = "get"]
         /\ audio_queue' = q
         /\ UNCHANGED <<sent, shield>>
    ELSE IF Head(q) = 0
         THEN EnterFinally(t, "none") /\ audio_queue' = Tail(q) /\ UNCHANGED sent
         ELSE IF ws = "open"
              THEN /\ sent' = Append(sent, Audio(Head(q)))
                   /\ send_task' = [t EXCEPT !.pc = "send"]
                   /\ audio_queue' = Tail(q)
                   /\ UNCHANGED shield
              ELSE EnterFinally(t, "none") /\ audio_queue' = Tail(q) /\ UNCHANGED sent

\* First step of the live sender: drain the queue, then wait for a block.
MicSendStart ==
    /\ mode = "mic" /\ send_task.pc = "init" /\ ~send_task.must_cancel
    /\ MicLoop(send_task, <<>>)
    /\ UNCHANGED <<stream_closed, finalized, gather_exc>>
    /\ UNCHANGED clockVars
    /\ SenderFrame

\* audio_queue.get() returns.
MicSendGet ==
    /\ mode = "mic" /\ send_task.pc = "get" /\ ~send_task.must_cancel
    /\ audio_queue # <<>>
    /\ MicLoop(send_task, audio_queue)
    /\ UNCHANGED <<stream_closed, finalized, gather_exc>>
    /\ UNCHANGED clockVars
    /\ SenderFrame

\* MicSendSent without the stop_event check
MicSendSentNoStop ==
    /\ mode = "mic" /\ send_task.pc = "send" /\ ~send_task.must_cancel
    /\ MicLoop(send_task, audio_queue)
    /\ UNCHANGED <<stream_closed, finalized, gather_exc>>
    /\ UNCHANGED clockVars
    /\ SenderFrame

\* Resumed from the send of a captured block: the stop_event check.
MicSendSent ==
    /\ mode = "mic" /\ send_task.pc = "send" /\ ~send_task.must_cancel
    /\ IF stop_event
       THEN EnterFinally(send_task, "none") /\ audio_queue' = <<>> /\ UNCHANGED sent
       ELSE MicLoop(send_task, audio_queue)
    /\ UNCHANGED <<stream_closed, finalized, gather_exc>>
    /\ UNCHANGED clockVars
    /\ SenderFrame

\* The shield awaited in the except handler is done: `return` (file), `raise` (mic).
SendExceptDone ==
    /\ send_task.pc = "except" /\ ~send_task.must_cancel
    /\ shield.exc.st = "done"
    /\ EnterFinally(send_task, IF mode = "file" THEN "none" ELSE "CancelledError")
    /\ UNCHANGED <<sent, stream_closed, finalized, gather_exc, audio_queue>>
    /\ UNCHANGED clockVars
    /\ SenderFrame

\* The shield awaited in the finally clause is done: the task ends.
SendFinallyDone ==
    /\ send_task.pc = "finally" /\ ~send_task.must_cancel
    /\ shield.fin.st = "done"
    /\ LET result == IF send_task.exc = "none" THEN "ok" ELSE send_task.exc
       IN /\ send_task' = Finish(send_task, result)
          /\ gather_exc' = GatherNote(result)
    /\ UNCHANGED <<sent, stream_closed, finalized, shield, audio_queue>>
    /\ UNCHANGED clockVars
    /\ SenderFrame

\* CancelledError raised at the await send_task is suspended in.  A task that
\* shield() created was scheduled before the cancelled task can be resumed.
SendCancelled ==
    /\ Running(send_task) /\ send_task.must_cancel
    /\ send_task.pc = "except" => shield.exc.st # "start"
    /\ send_task.pc = "finally" => shield.fin.st # "start"
    /\ CASE send_task.pc = "init" \/ (mode = "file" /\ send_task.pc = "leadin")
              \/ send_task.pc = "finally" ->
              /\ send_task' = Finish(send_task, "CancelledError")
              /\ gather_exc' = GatherNote("CancelledError")
              /\ UNCHANGED <<stream_closed, shield>>
         [] send_task.pc = "trailer" ->
              /\ stream_closed' = FALSE
              /\ EnterExcept(send_task)
              /\ UNCHANGED gather_exc
         [] send_task.pc = "except" ->
              /\ EnterFinally(send_task, "CancelledError")
              /\ UNCHANGED <<stream_closed, gather_exc>>
         [] OTHER ->
              /\ EnterExcept(send_task)
              /\ UNCHANGED <<stream_closed, gather_exc>>
    /\ UNCHANGED <<sent, finalized, audio_queue>>
    /\ UNCHANGED clockVars
    /\ SenderFrame

\* A step of a shielded trailer task, resumed after its k-th frame.
ShieldResume(s, k) ==
    IF TrailerNext(k) = "return"
    THEN shield' = [shield EXCEPT ![s] = [st |-> "done", k |-> k]] /\ UNCHANGED sent
    ELSE /\ sent' = Append(sent, TrailerFrame(k))
         /\ shield' = [shield EXCEPT ![s] = [st |-> "run", k |-> k + 1]]

\* ShieldStep whose trailer does not test the flag that marks it as started
ShieldStepUnflagged(s) ==
    /\ shield[s].st \in {"start", "run"}
    /\ s = "fin" => shield.exc.st # "start"
    /\ IF shield[s].st = "start"
       THEN /\ stream_closed' = (IF mode = "file" THEN TRUE ELSE stream_closed)
            /\ finalized' = (IF mode = "mic" THEN TRUE ELSE finalized)
            /\ ShieldResume(s, 0)
       ELSE ShieldResume(s, shield[s].k) /\ UNCHANGED <<stream_closed, finalized>>
    /\ UNCHANGED <<send_task, gather_exc, audio_queue>>
    /\ UNCHANGED clockVars
    /\ SenderFrame

\* ShieldStep whose trailer sets the flag only when it returns
ShieldStepLateFlag(s) ==
    /\ shield[s].st \in {"start", "run"}
    /\ s = "fin" => shield.exc.st # "start"
    /\ IF shield[s].st = "start"
       THEN IF TrailerFlag
            THEN /\ shield' = [shield EXCEPT ![s] = [st |-> "done", k |-> 0]]
                 /\ UNCHANGED <<sent, stream_closed, finalized>>
            ELSE ShieldResume(s, 0) /\ UNCHANGED <<stream_closed, finalized>>
       ELSE /\ ShieldResume(s, shield[s].k)
            /\ stream_closed' = (IF mode = "file" /\ TrailerNext(shield[s].k) = "return"
                                 THEN TRUE ELSE stream_closed)
            /\ finalized' = (IF mode = "mic" /\ TrailerNext(shield[s].k) = "return"
                             THEN TRUE ELSE finalized)
    /\ UNCHANGED <<send_task, gather_exc, audio_queue>>
    /\ UNCHANGED clockVars
    /\ SenderFrame

ShieldStep(s) ==
    /\ shield[s].st \in {"start", "run"}
    /\ s = "fin" => shield.exc.st # "start"
    /\ IF shield[s].st = "start"
       THEN IF TrailerFlag
            THEN /\ shield' = [shield EXCEPT ![s] = [st |-> "done", k |-> 0]]
                 /\ UNCHANGED <<sent, stream_closed, finalized>>
            ELSE /\ stream_closed' = (IF mode = "file" THEN TRUE ELSE stream_closed)
                 /\ finalized' = (IF mode = "mic" THEN TRUE ELSE finalized)
                 /\ ShieldResume(s, 0)
       ELSE ShieldResume(s, shield[s].k) /\ UNCHANGED <<stream_closed, finalized>>
    /\ UNCHANGED <<send_task, gather_exc, audio_queue>>
    /\ UNCHANGED clockVars
    /\ SenderFrame


\* ------------------------------------------------------------ receiver
Texts == {"hi", "there"}
MaxTime == 2
Times == 0 .. MaxTime
MaxInbound == 4

WordFrame(x, t) == [type |-> "Word", text |-> x, start_time |-> t]
EndWordFrame(t) == [type |-> "EndWord", stop_time |-> t]
StepFrame == [type |-> "Step", prs |-> <<0, 0, 0, 0>>]
\* a frame whose type the clients do not know, and one without a "type" key
UnknownFrame == [type |-> "Ready"]
MalformedFrame == [pcm |-> 0]

Frames ==
    {WordFrame(x, t) : x \in Texts, t \in Times} \cup {EndWordFrame(t) : t \in Times}
        \cup {StepFrame, marker_msg, UnknownFrame, MalformedFrame}
SessionFrames == {WordFrame("hi", 0), marker_msg, MalformedFrame}

\* data["type"] raises KeyError
Malformed(f) == "type" \notin DOMAIN f

\* HandleMessage with EndWord ignored
HandleMessageNoEndWord(tr, f) ==
    IF f.type = "Word"
    THEN Append(tr, [text |-> f.text, timestamp |-> <<f.start_time, f.start_time>>])
    ELSE tr

\* HandleMessage without the `len(transcript) > 0` guard doing harm: an
\* EndWord with no entry to close opens one
HandleMessageUnguarded(tr, f) ==
    IF f.type = "Step" THEN tr
    ELSE IF f.type = "Word"
         THEN Append(tr, [text |-> f.text, timestamp |-> <<f.start_time, f.start_time>>])
         ELSE IF f.type = "EndWord"
              THEN IF Len(tr) > 0
                   THEN [tr EXCEPT ![Len(tr)].timestamp[2] = f.stop_time]
                   ELSE <<[text |-> "", timestamp |-> <<f.stop_time, f.stop_time>>]>>
              ELSE tr

\* HandleMessage with the new entry inserted at the front
HandleMessagePrepend(tr, f) ==
    IF f.type = "Step" THEN tr
    ELSE IF f.type = "Word"
         THEN <<[text |-> f.text, timestamp |-> <<f.start_time, f.start_time>>]>> \o tr
         ELSE IF f.type = "EndWord"
              THEN IF Len(tr) > 0
                   THEN [tr EXCEPT ![Len(tr)].timestamp[2] = f.stop_time]
                   ELSE tr
              ELSE tr

\* The body of the file receiver's loop on the transcript.
HandleMessage(tr, f) ==
    IF f.type = "Step" THEN tr
    ELSE IF f.type = "Word"
         THEN Append(tr, [text |-> f.text, timestamp |-> <<f.start_time, f.start_time>>])
         ELSE IF f.type = "EndWord"
              THEN IF Len(tr) > 0
                   THEN [tr EXCEPT ![Len(tr)].timestamp[2] = f.stop_time]
                   ELSE tr
              ELSE tr

\* The live receiver (mic mode).  Pause predictions are counted in tenths.
PAUSE_PREDICTION_HEAD_INDEX == 2
\* the 0.5 that a pause prediction has to exceed
PAUSE_LEVEL == 5
PAUSE_MARK == "| "
END_NOTICE == "Server reached the end of the stream."
CLOSED_NOTICE == "Connection closed while receiving messages."

\* a text message, which the live receiver skips before unpacking
TextMessage == [str |-> "text"]
IsText(f) == "str" \in DOMAIN f

\* `pause_prediction > 0.5 and speech_started` on a Step, with show_vad
PauseDetected(f, sv, ss) ==
    /\ f.type = "Step" /\ sv
    /\ f.prs[PAUSE_PREDICTION_HEAD_INDEX + 1] > PAUSE_LEVEL /\ ss

\* LiveSpeech that keeps speech_started set when the indicator is printed
LiveSpeechLevel(f, sv, ss) ==
    IF f.type = "Step" /\ sv
    THEN ss
    ELSE IF f.type = "Word" THEN TRUE ELSE ss

\* speech_started after the body of the live receiver's loop
LiveSpeech(f, sv, ss) ==
    IF f.type = "Step" /\ sv
    THEN IF PauseDetected(f, sv, ss) THEN FALSE ELSE ss
    ELSE IF f.type = "Word" THEN TRUE ELSE ss

\* what the body of the live receiver's loop prints
LivePrint(f, sv, ss) ==
    IF f.type = "Step" /\ sv
    THEN IF PauseDetected(f, sv, ss) THEN <<PAUSE_MARK>> ELSE <<>>
    ELSE IF f.type = "Word" THEN <<f.text>>
         ELSE IF f.type = "Marker" THEN <<END_NOTICE>> ELSE <<>>

ReceiverFrame ==
    UNCHANGED <<mode, audio_len, ws, ws_close, sent, send_task, stream_closed,
                finalized, shield, main, cancelled, shutdown, n_cancels, audio_queue,
                ready, stop_event, produced, sigints, rtf, now, start_time, wake,
                message, packed, unpacked, show_vad, ttsVars>>

\* First step of receive_messages: up to the first wait for a message.
\* send_task was created, and so scheduled, before receive_task.
RecvStart ==
    /\ receive_task.pc = "init" /\ ~receive_task.must_cancel
    /\ send_task.pc # "init"
    /\ receive_task' = [receive_task EXCEPT !.pc = "recv"]
    /\ speech_started' = FALSE
    /\ UNCHANGED <<transcript, received, n_inbound, gather_exc, printed>>
    /\ ReceiverFrame

\* Deliver where the Marker does not end the loop
DeliverNoBreak(f) ==
    /\ receive_task.pc = "recv" /\ ~receive_task.must_cancel
    /\ ws \in {"open", "closing"}
    /\ received' = Append(received, f)
    /\ n_inbound' = n_inbound + 1
    /\ IF mode = "mic" /\ IsText(f)
       THEN UNCHANGED <<receive_task, gather_exc, transcript, speech_started, printed>>
       ELSE IF Malformed(f)
       THEN /\ receive_task' = Finish(receive_task, "DecodeError")
            /\ gather_exc' = GatherNote("DecodeError")
            /\ UNCHANGED <<transcript, speech_started, printed>>
       ELSE /\ transcript' = (IF mode = "file" THEN HandleMessage(transcript, f)
                              ELSE transcript)
            /\ speech_started' = (IF mode = "mic"
                                  THEN LiveSpeech(f, show_vad, speech_started)
                                  ELSE speech_started)
            /\ printed' = (IF mode = "mic"
                           THEN printed \o LivePrint(f, show_vad, speech_started)
                           ELSE printed)
            /\ UNCHANGED <<receive_task, gather_exc>>
    /\ ReceiverFrame

\* The websocket yields message f to the receiver's `async for`.
Deliver(f) ==
    /\ receive_task.pc = "recv" /\ ~receive_task.must_cancel
    /\ ws \in {"open", "closing"}
    /\ received' = Append(received, f)
    /\ n_inbound' = n_inbound + 1
    /\ IF mode = "mic" /\ IsText(f)
       THEN UNCHANGED <<receive_task, gather_exc, transcript, speech_started, printed>>
       ELSE IF Malformed(f)
       THEN /\ receive_task' = Finish(receive_task, "DecodeError")
            /\ gather_exc' = GatherNote("DecodeError")
            /\ UNCHANGED <<transcript, speech_started, printed>>
       ELSE /\ transcript' = (IF mode = "file" THEN HandleMessage(transcript, f)
                              ELSE transcript)
            /\ speech_started' = (IF mode = "mic"
                                  THEN LiveSpeech(f, show_vad, speech_started)
                                  ELSE speech_started)
            /\ printed' = (IF mode = "mic"
                           THEN printed \o LivePrint(f, show_vad, speech_started)
                           ELSE printed)
            /\ IF f.type = "Marker"
               THEN receive_task' = Finish(receive_task, "ok") /\ UNCHANGED gather_exc
               ELSE UNCHANGED <<receive_task, gather_exc>>
    /\ ReceiverFrame

\* A frame from the server during a session.
ServerFrame ==
    /\ n_inbound < MaxSessionFrames
    /\ \E f \in SessionFrames : Deliver(f)

\* The connection is closed: the iteration ends (normal closure), or raises
\* ConnectionClosed, which only the live receiver catches.
RecvClosed ==
    /\ receive_task.pc = "recv" /\ ~receive_task.must_cancel
    /\ ws = "closed"
    /\ LET result == IF mode = "file" /\ ws_close = "error"
                     THEN "ConnectionClosed" ELSE "ok"
       IN /\ receive_task' = Finish(receive_task, result)
          /\ gather_exc' = GatherNote(result)
    /\ printed' = (IF mode = "mic" /\ ws_close = "error"
                   THEN Append(printed, CLOSED_NOTICE) ELSE printed)
    /\ UNCHANGED <<transcript, received, n_inbound, speech_started>>
    /\ ReceiverFrame

\* CancelledError raised in receive_messages.
RecvCancelled ==
    /\ Running(receive_task) /\ receive_task.must_cancel
    /\ receive_task.pc = "init" => send_task.pc # "init"
    /\ receive_task' = Finish(receive_task, "CancelledError")
    /\ gather_exc' = GatherNote("CancelledError")
    /\ UNCHANGED <<transcript, received, n_inbound, speech_started, printed>>
    /\ ReceiverFrame

\* ------------------------------------------------------------ shutdown
\* _close_websocket
ShutClose ==
    IF ws = "closed"
    THEN shutdown' = "done" /\ UNCHANGED <<ws, sent>>
    ELSE /\ shutdown' = "closing"
         /\ IF ws = "open"
            THEN sent' = Append(sent, CloseFrame(WS_CLOSE_REASON)) /\ ws' = "closing"
            ELSE UNCHANGED <<ws, sent>>

\* _cancel_task(receive_task), then _close_websocket
ShutCancelRecv ==
    IF Done(receive_task)
    THEN ShutClose /\ UNCHANGED receive_task
    ELSE /\ receive_task' = [receive_task EXCEPT !.must_cancel = TRUE]
         /\ shutdown' = "wait_recv"
         /\ UNCHANGED <<ws, sent>>

\* _cancel_task(send_task), then the rest
ShutCancelSend ==
    IF Done(send_task)
    THEN ShutCancelRecv /\ UNCHANGED send_task
    ELSE /\ send_task' = [send_task EXCEPT !.must_cancel = TRUE]
         /\ shutdown' = "wait_send"
         /\ UNCHANGED <<receive_task, ws, sent>>

\* `await task` in _cancel_task suppresses CancelledError only.
Suppressed(result) == result \in {"ok", "CancelledError"}

ShutdownFrame ==
    UNCHANGED <<mode, audio_len, ws_close, stream_closed, finalized, shield, transcript,
                received, n_inbound, main, cancelled, gather_exc, n_cancels,
                audio_queue, ready, stop_event, produced, sigints, rtf, now,
                start_time, wake, message, packed, unpacked,
                vadVars, ttsVars>>

ShutdownStart ==
    /\ shutdown = "start"
    /\ ShutCancelSend
    /\ ShutdownFrame

ShutdownSendAwaited ==
    /\ shutdown = "wait_send" /\ Done(send_task)
    /\ IF Suppressed(send_task.result)
       THEN ShutCancelRecv
       ELSE shutdown' = "failed" /\ UNCHANGED <<receive_task, ws, sent>>
    /\ UNCHANGED send_task
    /\ ShutdownFrame

ShutdownRecvAwaited ==
    /\ shutdown = "wait_recv" /\ Done(receive_task)
    /\ IF Suppressed(receive_task.result)
       THEN ShutClose
       ELSE shutdown' = "failed" /\ UNCHANGED <<ws, sent>>
    /\ UNCHANGED <<send_task, receive_task>>
    /\ ShutdownFrame

\* wait_closed() returns
ShutdownClosed ==
    /\ shutdown = "closing" /\ ws = "closed"
    /\ shutdown' = "done"
    /\ UNCHANGED <<send_task, receive_task, ws, sent>>
    /\ ShutdownFrame


\* ------------------------------------------------------------ coordinator
MainFrame ==
    UNCHANGED <<mode, audio_len, ws_close, stream_closed, finalized, shield, transcript,
                received, n_inbound, gather_exc, n_cancels, audio_queue, ready,
                stop_event, produced, sigints, rtf, now, start_time, wake, message,
                packed, unpacked,
                vadVars, ttsVars>>

GatherAllDone == Done(send_task) /\ Done(receive_task)
\* the gather future of the live client is done
GatherDone == gather_exc # "none" \/ GatherAllDone

\* `async with websockets.connect(...) as websocket:` and the two create_task
MainConnect ==
    /\ main.pc = "connect" /\ ~main.must_cancel
    /\ ws' = "open"
    /\ send_task' = [NewTask EXCEPT !.pc = "init"]
    /\ receive_task' = [NewTask EXCEPT !.pc = "init"]
    /\ main' = [main EXCEPT !.pc = IF mode = "file" THEN "await1" ELSE "gather"]
    /\ UNCHANGED <<sent, cancelled, shutdown>>
    /\ MainFrame

\* `finally: await asyncio.shield(_shutdown_session(...))` with exc in flight
EnterMainFinally(exc) ==
    /\ main' = [main EXCEPT !.pc = "finally", !.exc = exc, !.must_cancel = FALSE]
    /\ shutdown' = "start"

\* File mode: the shielded gather future is done.
FileMainGathered ==
    /\ mode = "file" /\ main.pc \in {"await1", "await2"} /\ ~main.must_cancel
    /\ GatherAllDone
    /\ EnterMainFinally("none")
    /\ UNCHANGED <<ws, sent, send_task, receive_task, cancelled>>
    /\ MainFrame

\* FileMainCancelledFirst with the gather future awaited without shield: the
\* cancellation reaches the tasks
FileMainCancelledUnshielded ==
    /\ mode = "file" /\ main.pc = "await1" /\ main.must_cancel
    /\ send_task.pc # "init" /\ receive_task.pc # "init"
    /\ cancelled' = TRUE
    /\ IF GatherAllDone
       THEN EnterMainFinally("none")
       ELSE /\ main' = [main EXCEPT !.pc = "await2", !.must_cancel = FALSE]
            /\ UNCHANGED shutdown
    /\ send_task' = IF Done(send_task) THEN send_task
                    ELSE [send_task EXCEPT !.must_cancel = TRUE]
    /\ receive_task' = IF Done(receive_task) THEN receive_task
                       ELSE [receive_task EXCEPT !.must_cancel = TRUE]
    /\ UNCHANGED <<ws, sent>>
    /\ MainFrame

\* File mode: CancelledError at the first `await asyncio.shield(gather_future)`.
\* Both tasks were scheduled before the coordinator can be resumed.
FileMainCancelledFirst ==
    /\ mode = "file" /\ main.pc = "await1" /\ main.must_cancel
    /\ send_task.pc # "init" /\ receive_task.pc # "init"
    /\ cancelled' = TRUE
    /\ IF GatherAllDone
       THEN EnterMainFinally("none")
       ELSE /\ main' = [main EXCEPT !.pc = "await2", !.must_cancel = FALSE]
            /\ UNCHANGED shutdown
    /\ UNCHANGED <<ws, sent, send_task, receive_task>>
    /\ MainFrame

\* File mode: CancelledError at the second await, inside the except handler.
FileMainCancelledAgain ==
    /\ mode = "file" /\ main.pc = "await2" /\ main.must_cancel
    /\ EnterMainFinally("CancelledError")
    /\ UNCHANGED <<ws, sent, send_task, receive_task, cancelled>>
    /\ MainFrame

\* Live mode: `await asyncio.gather(send_task, receive_task)` ends.
MicMainGathered ==
    /\ mode = "mic" /\ main.pc = "gather" /\ ~main.must_cancel
    /\ GatherDone
    /\ EnterMainFinally(gather_exc)
    /\ UNCHANGED <<ws, sent, send_task, receive_task, cancelled>>
    /\ MainFrame

MicMainCancelled ==
    /\ mode = "mic" /\ main.pc = "gather" /\ main.must_cancel
    /\ EnterMainFinally("CancelledError")
    /\ UNCHANGED <<ws, sent, send_task, receive_task, cancelled>>
    /\ MainFrame

\* The exception, if any, that lines 163-176 of the file client end with.
FileOutcome ==
    IF ~Suppressed(send_task.result) THEN send_task.result
    ELSE IF ~Suppressed(receive_task.result) THEN receive_task.result
         ELSE IF \/ cancelled
                 \/ send_task.result = "CancelledError"
                 \/ receive_task.result = "CancelledError"
              THEN "CancelledError"
              ELSE "none"

\* Leaving the `async with` block with exc in flight: __aexit__ closes the
\* connection (default reason) and waits for it to be closed.
LeaveWith(exc) ==
    IF ws = "closed"
    THEN /\ main' = Finish(main, IF exc = "none" THEN "ok" ELSE exc)
         /\ UNCHANGED <<ws, sent>>
    ELSE /\ main' = [main EXCEPT !.pc = "aexit", !.exc = exc, !.must_cancel = FALSE]
         /\ IF ws = "open"
            THEN sent' = Append(sent, CloseFrame("")) /\ ws' = "closing"
            ELSE UNCHANGED <<ws, sent>>

\* The shielded _shutdown_session is done: the code after the finally clause.
MainShutdownDone ==
    /\ main.pc = "finally" /\ ~main.must_cancel
    /\ shutdown \in {"done", "failed"}
    /\ IF shutdown = "failed"
       THEN LeaveWith("ShutdownError") /\ UNCHANGED cancelled
       ELSE IF main.exc # "none" \/ mode = "mic"
            THEN LeaveWith(main.exc) /\ UNCHANGED cancelled
            ELSE /\ LeaveWith(FileOutcome)
                 /\ cancelled' = (\/ cancelled
                                  \/ send_task.result = "CancelledError"
                                  \/ /\ Suppressed(send_task.result)
                                     /\ receive_task.result = "CancelledError")
    /\ UNCHANGED <<send_task, receive_task, shutdown>>
    /\ MainFrame

\* CancelledError at `await asyncio.shield(_shutdown_session(...))`; the
\* shutdown task was scheduled before the coordinator can be resumed.
MainFinallyCancelled ==
    /\ main.pc = "finally" /\ main.must_cancel
    /\ shutdown # "start"
    /\ LeaveWith("CancelledError")
    /\ UNCHANGED <<send_task, receive_task, shutdown, cancelled>>
    /\ MainFrame

\* __aexit__ returns: stream_audio ends.
MainExit ==
    /\ main.pc = "aexit" /\ ~main.must_cancel
    /\ ws = "closed"
    /\ main' = Finish(main, IF main.exc = "none" THEN "ok" ELSE main.exc)
    /\ UNCHANGED <<ws, sent, send_task, receive_task, shutdown, cancelled>>
    /\ MainFrame

\* CancelledError while connecting or inside __aexit__.
MainCancelledOutside ==
    /\ main.pc \in {"connect", "aexit"} /\ main.must_cancel
    /\ main' = Finish(main, "CancelledError")
    /\ UNCHANGED <<ws, sent, send_task, receive_task, shutdown, cancelled>>
    /\ MainFrame

\* ------------------------------------------------------------ environment
\* task.cancel() on the task running stream_audio.  Awaiting the un-shielded
\* gather future, the cancellation goes to the children that are not done.
ExternalCancel ==
    /\ n_cancels < MaxCancels
    /\ main.pc # "done" /\ ~main.must_cancel
    /\ n_cancels' = n_cancels + 1
    /\ IF mode = "mic" /\ main.pc = "gather" /\ ~GatherDone
       THEN /\ send_task' = IF Done(send_task) THEN send_task
                            ELSE [send_task EXCEPT !.must_cancel = TRUE]
            /\ receive_task' = IF Done(receive_task) THEN receive_task
                               ELSE [receive_task EXCEPT !.must_cancel = TRUE]
            /\ UNCHANGED main
       ELSE /\ main' = [main EXCEPT !.must_cancel = TRUE]
            /\ UNCHANGED <<send_task, receive_task>>
    /\ UNCHANGED <<mode, audio_len, ws, ws_close, sent, stream_closed, finalized, shield,
                   transcript, received, n_inbound, cancelled, gather_exc, shutdown,
                   audio_queue, ready, stop_event, produced, sigints, rtf, now,
                   start_time, wake, message, packed, unpacked,
                vadVars, ttsVars>>

EnvFrame ==
    UNCHANGED <<mode, audio_len, sent, send_task, stream_closed, finalized, shield,
                receive_task, transcript, received, n_inbound, main, cancelled,
                gather_exc, shutdown, n_cancels, rtf, now, start_time, wake, message,
                packed, unpacked,
                vadVars, ttsVars>>

\* The server closes the connection (normal closure) or the connection drops.
ServerClose ==
    /\ ws = "open"
    /\ ws' = "closed"
    /\ ws_close' \in {"ok", "error"}
    /\ UNCHANGED micVars
    /\ EnvFrame

\* The closing handshake the client started completes (or times out).
CloseAck ==
    /\ ws = "closing"
    /\ ws' = "closed"
    /\ ws_close' = "ok"
    /\ UNCHANGED micVars
    /\ EnvFrame

\* audio_callback on the capture thread, for the first `limit` blocks
Capture(limit) ==
    /\ mode = "mic" /\ main.pc # "done"
    /\ produced < limit
    /\ ~stop_event
    /\ produced' = produced + 1
    /\ ready' = Append(ready, [op |-> "put", item |-> produced + 1])
    /\ UNCHANGED <<ws, ws_close, audio_queue, stop_event, sigints>>
    /\ EnvFrame

AudioCallback == Capture(MaxCaptured)

\* signal_handler, first branch excluded (stop_event set: KeyboardInterrupt)
SignalHandler ==
    /\ mode = "mic" /\ main.pc # "done"
    /\ sigints < MaxSigints
    /\ ~stop_event
    /\ sigints' = sigints + 1
    /\ ready' = ready \o <<[op |-> "set", item |-> 0], [op |-> "put", item |-> 0]>>
    /\ UNCHANGED <<ws, ws_close, audio_queue, stop_event, produced>>
    /\ EnvFrame

\* LoopCallback that puts a handed-over item at the front of the queue
LoopCallbackFront ==
    /\ mode = "mic" /\ ready # <<>>
    /\ ready' = Tail(ready)
    /\ IF Head(ready).op = "set"
       THEN stop_event' = TRUE /\ UNCHANGED audio_queue
       ELSE audio_queue' = <<Head(ready).item>> \o audio_queue /\ UNCHANGED stop_event
    /\ UNCHANGED <<ws, ws_close, produced, sigints>>
    /\ EnvFrame

\* The event loop runs the next callback handed over by call_soon_threadsafe.
LoopCallback ==
    /\ mode = "mic" /\ ready # <<>>
    /\ ready' = Tail(ready)
    /\ IF Head(ready).op = "set"
       THEN stop_event' = TRUE /\ UNCHANGED audio_queue
       ELSE audio_queue' = Append(audio_queue, Head(ready).item) /\ UNCHANGED stop_event
    /\ UNCHANGED <<ws, ws_close, produced, sigints>>
    /\ EnvFrame

\* ------------------------------------------------------------ specification
\* len(audio_data): empty, a last block that is partial, a whole number of blocks
AudioLens ==
    {0, MaxBlocks * FRAME_SIZE} \cup {(n - 1) * FRAME_SIZE + 1 : n \in 1 .. MaxBlocks}

\* No file is written before sphn.write_wav is called.
NoFile == [none |-> TRUE]

\* Nothing printed, queued or written yet.
InitOutput ==
    /\ speech_started = FALSE /\ printed = <<>>
    /\ output_queue = <<>> /\ output_audio_task = [pc |-> "none", result |-> "none"]
    /\ frames = <<>> /\ wav = NoFile

InitCommon ==
    /\ ws = "connecting" /\ ws_close = "none" /\ sent = <<>>
    /\ send_task = NewTask /\ receive_task = NewTask
    /\ stream_closed = FALSE /\ finalized = FALSE
    /\ shield = [exc |-> NoShield, fin |-> NoShield]
    /\ transcript = <<>> /\ received = <<>> /\ n_inbound = 0
    /\ main = [NewTask EXCEPT !.pc = "connect"]
    /\ cancelled = FALSE /\ gather_exc = "none" /\ shutdown = "none" /\ n_cancels = 0
    /\ audio_queue = <<>> /\ ready = <<>> /\ stop_event = FALSE
    /\ produced = 0 /\ sigints = 0
    /\ rtf = 1 /\ now = 0 /\ start_time = 0 /\ wake = 0
    /\ message = NoMessage /\ packed = NoMessage /\ unpacked = NoMessage
    /\ show_vad = FALSE /\ InitOutput

InitFile == mode = "file" /\ audio_len \in AudioLens /\ InitCommon
InitMic == mode = "mic" /\ audio_len = 0 /\ InitCommon
Init == InitFile \/ InitMic

NextCommon ==
    \/ SendExceptDone \/ SendFinallyDone \/ SendCancelled
    \/ (\E s \in {"exc", "fin"} : ShieldStep(s))
    \/ RecvStart \/ ServerFrame \/ RecvClosed \/ RecvCancelled
    \/ ShutdownStart \/ ShutdownSendAwaited \/ ShutdownRecvAwaited \/ ShutdownClosed
    \/ MainConnect \/ MainShutdownDone \/ MainFinallyCancelled \/ MainExit
    \/ MainCancelledOutside
    \/ ExternalCancel \/ ServerClose \/ CloseAck

NextFile ==
    \/ FileSendStart \/ FileSendLoop \/ FileSendSleep \/ FileSendTrailer
    \/ FileMainGathered \/ FileMainCancelledFirst \/ FileMainCancelledAgain

NextMic ==
    \/ MicSendStart \/ MicSendGet \/ MicSendSent
    \/ MicMainGathered \/ MicMainCancelled
    \/ AudioCallback \/ SignalHandler \/ LoopCallback

Next == NextCommon \/ NextFile \/ NextMic

Spec == Init /\ [][Next]_vars
SpecFile == InitFile /\ [][NextCommon \/ NextFile]_vars
SpecMic == InitMic /\ [][NextCommon \/ NextMic]_vars


\* The receiver alone: the state after the connection is opened and the
\* sender has written the lead-in, then only steps of receive_task and of
\* the server.
InitRecv ==
    /\ mode = "file" /\ audio_len = 0
    /\ ws = "open" /\ ws_close = "none" /\ sent = <<Silence>>
    /\ send_task = [NewTask EXCEPT !.pc = "leadin"]
    /\ receive_task = [NewTask EXCEPT !.pc = "init"]
    /\ stream_closed = FALSE /\ finalized = FALSE
    /\ shield = [exc |-> NoShield, fin |-> NoShield]
    /\ transcript = <<>> /\ received = <<>> /\ n_inbound = 0
    /\ main = [NewTask EXCEPT !.pc = "await1"]
    /\ cancelled = FALSE /\ gather_exc = "none" /\ shutdown = "none" /\ n_cancels = 0
    /\ audio_queue = <<>> /\ ready = <<>> /\ stop_event = FALSE
    /\ produced = 0 /\ sigints = 0
    /\ rtf = 1 /\ now = 0 /\ start_time = 0 /\ wake = 0
    /\ message = NoMessage /\ packed = NoMessage /\ unpacked = NoMessage
    /\ show_vad = FALSE /\ InitOutput

\* A frame from the server, any of the wire variants.
RecvFrame ==
    /\ n_inbound < MaxInbound
    /\ \E f \in Frames : Deliver(f)

NextRecv == RecvStart \/ RecvFrame \/ ServerClose \/ RecvClosed

SpecRecv == InitRecv /\ [][NextRecv]_vars

\* Both clients when stream_audio is not cancelled from outside.
NextQuiet ==
    \/ FileSendStart \/ FileSendLoop \/ FileSendSleep \/ FileSendTrailer
    \/ MicSendStart \/ MicSendGet \/ MicSendSent
    \/ SendExceptDone \/ SendFinallyDone \/ SendCancelled
    \/ (\E s \in {"exc", "fin"} : ShieldStep(s))
    \/ RecvStart \/ ServerFrame \/ RecvClosed
    \/ ShutdownStart \/ ShutdownSendAwaited \/ ShutdownClosed
    \/ MainConnect \/ FileMainGathered \/ MicMainGathered
    \/ MainShutdownDone
    \/ ServerClose \/ CloseAck
    \/ AudioCallback \/ SignalHandler \/ LoopCallback

SpecQuiet == Init /\ [][NextQuiet]_vars

\* The live receiver alone: the connection is open and the sender waits for
\* captured audio; then only steps of receive_task and of the server.
MaxVadFrames == 5
\* a pause prediction of 1.0
PRS_ONE == 10
VadPrs ==
    {<<0, 0, p, 0>> : p \in {0, PAUSE_LEVEL, PAUSE_LEVEL + 1}}
        \cup {<<PRS_ONE, PRS_ONE, 0, PRS_ONE>>}
VadFrames ==
    {[type |-> "Step", prs |-> q] : q \in VadPrs}
        \cup {WordFrame("hi", 0), marker_msg, UnknownFrame, MalformedFrame, TextMessage}

InitVad ==
    /\ mode = "mic" /\ audio_len = 0
    /\ ws = "open" /\ ws_close = "none" /\ sent = <<>>
    /\ send_task = [NewTask EXCEPT !.pc = "get"]
    /\ receive_task = [NewTask EXCEPT !.pc = "init"]
    /\ stream_closed = FALSE /\ finalized = FALSE
    /\ shield = [exc |-> NoShield, fin |-> NoShield]
    /\ transcript = <<>> /\ received = <<>> /\ n_inbound = 0
    /\ main = [NewTask EXCEPT !.pc = "gather"]
    /\ cancelled = FALSE /\ gather_exc = "none" /\ shutdown = "none" /\ n_cancels = 0
    /\ audio_queue = <<>> /\ ready = <<>> /\ stop_event = FALSE
    /\ produced = 0 /\ sigints = 0
    /\ rtf = 1 /\ now = 0 /\ start_time = 0 /\ wake = 0
    /\ message = NoMessage /\ packed = NoMessage /\ unpacked = NoMessage
    /\ show_vad \in BOOLEAN /\ InitOutput

VadFrame ==
    /\ n_inbound < MaxVadFrames
    /\ \E f \in VadFrames : Deliver(f)

NextVad == RecvStart \/ VadFrame \/ ServerClose \/ RecvClosed

SpecVad == InitVad /\ [][NextVad]_vars

\* The live session on a connection that the server keeps open, not
\* cancelled from outside, under a fair event loop: a task that can take its
\* next step takes it, a callback handed to the loop is run, and a closing
\* handshake the client started completes.
NextMicStop ==
    \/ MicSendStart \/ MicSendGet \/ MicSendSent
    \/ SendExceptDone \/ SendFinallyDone \/ SendCancelled
    \/ (\E s \in {"exc", "fin"} : ShieldStep(s))
    \/ RecvStart \/ ServerFrame
    \/ ShutdownStart \/ ShutdownSendAwaited \/ ShutdownClosed
    \/ MainConnect \/ MicMainGathered \/ MainShutdownDone
    \/ CloseAck
    \/ AudioCallback \/ SignalHandler \/ LoopCallback

FairLoop ==
    /\ WF_vars(MicSendStart) /\ WF_vars(MicSendGet) /\ WF_vars(MicSendSent)
    /\ WF_vars(SendExceptDone) /\ WF_vars(SendFinallyDone) /\ WF_vars(SendCancelled)
    /\ WF_vars(ShieldStep("exc")) /\ WF_vars(ShieldStep("fin"))
    /\ WF_vars(RecvStart)
    /\ WF_vars(ShutdownStart) /\ WF_vars(ShutdownSendAwaited) /\ WF_vars(ShutdownClosed)
    /\ WF_vars(MainConnect) /\ WF_vars(MicMainGathered) /\ WF_vars(MainShutdownDone)
    /\ WF_vars(CloseAck) /\ WF_vars(LoopCallback)

SpecMicStop == InitMic /\ [][NextMicStop]_vars /\ FairLoop

\* The live session with a longer run of captured blocks, on a connection
\* that the server keeps open and without cancellation from outside.
MaxBurst == 3
CaptureBurst == Capture(MaxBurst)

NextQueue ==
    \/ MicSendStart \/ MicSendGet \/ MicSendSent
    \/ SendExceptDone \/ SendFinallyDone \/ SendCancelled
    \/ (\E s \in {"exc", "fin"} : ShieldStep(s))
    \/ RecvStart \/ ServerFrame
    \/ ShutdownStart \/ ShutdownSendAwaited \/ ShutdownClosed
    \/ MainConnect \/ MicMainGathered \/ MainShutdownDone
    \/ CloseAck
    \/ CaptureBurst \/ SignalHandler \/ LoopCallback

SpecQueue == InitMic /\ [][NextQueue]_vars

\* The server echoes the Marker it has received.
ServerEcho ==
    /\ Count(sent, marker_msg) > 0
    /\ Deliver(marker_msg)

\* The same session with a source that ends (the stop signal arrives) and a
\* server that answers the Marker.
SpecMicLive ==
    /\ InitMic /\ [][NextMicStop \/ ServerEcho]_vars
    /\ FairLoop /\ WF_vars(SignalHandler) /\ WF_vars(ServerEcho)

\* The file-mode sender alone, with the clock: the state after the
\* connection is opened, then only steps of send_task and of the clock.
\* the clock advances in steps of half the duration of a block or of a whole
\* one (at rtf 1), at most MaxTicks half blocks in all
MaxTicks == 4
BLOCK_TICKS == FRAME_SIZE * TICKS_PER_SAMPLE
Ticks == {BLOCK_TICKS \div 2, BLOCK_TICKS}
MaxClock == MaxTicks * (BLOCK_TICKS \div 2)

\* Time passes.  The sender reads the clock only up to the end of its loop.
Tick ==
    /\ send_task.pc \in {"init", "leadin", "send", "sleep"}
    /\ \E d \in Ticks : now + d <= MaxClock /\ now' = now + d
    /\ UNCHANGED <<mode, audio_len, ws, ws_close, sent, send_task, stream_closed,
                   finalized, shield, receive_task, transcript, received, n_inbound,
                   main, cancelled, gather_exc, shutdown, n_cancels, audio_queue, ready,
                   stop_event, produced, sigints, rtf, start_time, wake, message,
                   packed, unpacked,
                vadVars, ttsVars>>

InitPace ==
    /\ mode = "file" /\ audio_len \in AudioLens
    /\ ws = "open" /\ ws_close = "none" /\ sent = <<>>
    /\ send_task = [NewTask EXCEPT !.pc = "init"]
    /\ receive_task = [NewTask EXCEPT !.pc = "init"]
    /\ stream_closed = FALSE /\ finalized = FALSE
    /\ shield = [exc |-> NoShield, fin |-> NoShield]
    /\ transcript = <<>> /\ received = <<>> /\ n_inbound = 0
    /\ main = [NewTask EXCEPT !.pc = "await1"]
    /\ cancelled = FALSE /\ gather_exc = "none" /\ shutdown = "none" /\ n_cancels = 0
    /\ audio_queue = <<>> /\ ready = <<>> /\ stop_event = FALSE
    /\ produced = 0 /\ sigints = 0
    /\ rtf \in Rtfs /\ now = 0 /\ start_time = 0 /\ wake = 0
    /\ message = NoMessage /\ packed = NoMessage /\ unpacked = NoMessage
    /\ show_vad = FALSE /\ InitOutput

NextPace ==
    \/ FileSendStart \/ FileSendLoop \/ FileSendSleep \/ FileSendTrailer
    \/ ShieldStep("fin") \/ SendFinallyDone
    \/ Tick

SpecPace == InitPace /\ [][NextPace]_vars

\* The codec alone: one wire message is packed with the sender's settings
\* and unpacked with the receiver's.
MaxPcm == 2
Pcms == UNION {[1 .. n -> Singles] : n \in 0 .. MaxPcm}
PrsValues == {0, 1}
MarkerIds == {0, 1, 65536}

WireMessages ==
    {[type |-> "Audio", pcm |-> a] : a \in Pcms}
        \cup {[type |-> "Word", text |-> x, start_time |-> t] : x \in Texts, t \in Floats}
        \cup {[type |-> "EndWord", stop_time |-> t] : t \in Floats}
        \cup {[type |-> "Step", prs |-> q] : q \in [1 .. 4 -> PrsValues]}
        \cup {[type |-> "Marker", id |-> n] : n \in MarkerIds}

CodecFrame ==
    UNCHANGED <<mode, audio_len, ws, ws_close, sent, send_task, stream_closed, finalized,
                shield, receive_task, transcript, received, n_inbound, main, cancelled,
                gather_exc, shutdown, n_cancels, audio_queue, ready, stop_event,
                produced, sigints, rtf, now, start_time, wake,
                vadVars, ttsVars>>

Pack ==
    /\ message # NoMessage /\ packed = NoMessage
    /\ packed' = packb(message)
    /\ UNCHANGED <<message, unpacked>>
    /\ CodecFrame

Unpack ==
    /\ packed # NoMessage /\ unpacked = NoMessage
    /\ unpacked' = unpackb(packed)
    /\ UNCHANGED <<message, packed>>
    /\ CodecFrame

InitCodec ==
    /\ mode = "file" /\ audio_len = 0
    /\ ws = "open" /\ ws_close = "none" /\ sent = <<>>
    /\ send_task = [NewTask EXCEPT !.pc = "init"]
    /\ receive_task = [NewTask EXCEPT !.pc = "init"]
    /\ stream_closed = FALSE /\ finalized = FALSE
    /\ shield = [exc |-> NoShield, fin |-> NoShield]
    /\ transcript = <<>> /\ received = <<>> /\ n_inbound = 0
    /\ main = [NewTask EXCEPT !.pc = "await1"]
    /\ cancelled = FALSE /\ gather_exc = "none" /\ shutdown = "none" /\ n_cancels = 0
    /\ audio_queue = <<>> /\ ready = <<>> /\ stop_event = FALSE
    /\ produced = 0 /\ sigints = 0
    /\ rtf = 1 /\ now = 0 /\ start_time = 0 /\ wake = 0
    /\ message \in WireMessages /\ packed = NoMessage /\ unpacked = NoMessage
    /\ show_vad = FALSE /\ InitOutput

SpecCodec == InitCodec /\ [][Pack \/ Unpack]_vars

\* ------------------------------------------------------------ TTS client
\* receive_messages and output_audio (file output) of the TTS client, on an
\* open connection that the server closes.
MaxTtsFrames == 4
TtsPcms == {<<>>, <<0>>, <<F32_STEP>>, <<F32_STEP + 1, 0>>}
TtsFrames ==
    {[type |-> "Audio", pcm |-> a] : a \in TtsPcms}
        \cup {UnknownFrame, MalformedFrame, TextMessage}

\* np.array(msg["pcm"]).astype(np.float32), as a queue item
AsFloat32(pcm) == [array |-> [i \in DOMAIN pcm |-> ToSingle(pcm[i])]]
\* the None that ends the audio
EndOfAudio == [none |-> TRUE]

\* np.concatenate(frames, -1)
RECURSIVE Concatenate(_)
Concatenate(fs) == IF fs = <<>> THEN <<>> ELSE Head(fs).array \o Concatenate(Tail(fs))

TtsFrame ==
    UNCHANGED <<mode, audio_len, sent, send_task, stream_closed, finalized, shield,
                transcript, main, cancelled, gather_exc, shutdown, n_cancels, micVars,
                rtf, clockVars, codecVars, vadVars>>

\* The websocket yields message f to `async for message_bytes in websocket`.
TtsDeliver(f) ==
    /\ mode = "tts" /\ receive_task.pc = "recv"
    /\ ws = "open"
    /\ received' = Append(received, f)
    /\ n_inbound' = n_inbound + 1
    /\ IF IsText(f) \/ Malformed(f)
       THEN /\ receive_task' = Finish(receive_task, "DecodeError")
            /\ UNCHANGED output_queue
       ELSE /\ output_queue' = (IF f.type = "Audio"
                                THEN Append(output_queue, AsFloat32(f.pcm))
                                ELSE output_queue)
            /\ UNCHANGED receive_task
    /\ UNCHANGED <<ws, ws_close, output_audio_task, frames, wav>>
    /\ TtsFrame

TtsServerFrame ==
    /\ n_inbound < MaxTtsFrames
    /\ \E f \in TtsFrames : TtsDeliver(f)

\* TtsRecvClosed that signals the end of audio however the connection closed
TtsRecvClosedAlways ==
    /\ mode = "tts" /\ receive_task.pc = "recv"
    /\ ws = "closed"
    /\ receive_task' = Finish(receive_task, "ok")
    /\ output_queue' = Append(output_queue, EndOfAudio)
    /\ UNCHANGED <<ws, ws_close, received, n_inbound, output_audio_task, frames, wav>>
    /\ TtsFrame

\* The connection is closed: the iteration ends and None is queued (normal
\* closure), or ConnectionClosed is raised.
TtsRecvClosed ==
    /\ mode = "tts" /\ receive_task.pc = "recv"
    /\ ws = "closed"
    /\ IF ws_close = "ok"
       THEN /\ receive_task' = Finish(receive_task, "ok")
            /\ output_queue' = Append(output_queue, EndOfAudio)
       ELSE /\ receive_task' = Finish(receive_task, "ConnectionClosed")
            /\ UNCHANGED output_queue
    /\ UNCHANGED <<ws, ws_close, received, n_inbound, output_audio_task, frames, wav>>
    /\ TtsFrame

\* output_queue.get() returns in output_audio (out is a file).
OutputGet ==
    /\ mode = "tts" /\ output_audio_task.pc = "get"
    /\ output_queue # <<>>
    /\ output_queue' = Tail(output_queue)
    /\ IF Head(output_queue) = EndOfAudio
       THEN IF frames = <<>>
            THEN /\ output_audio_task' = [pc |-> "done", result |-> "ValueError"]
                 /\ UNCHANGED <<frames, wav>>
            ELSE /\ output_audio_task' = [pc |-> "done", result |-> "ok"]
                 /\ wav' = [samples |-> Concatenate(frames)]
                 /\ UNCHANGED frames
       ELSE /\ frames' = Append(frames, Head(output_queue))
            /\ UNCHANGED <<output_audio_task, wav>>
    /\ UNCHANGED <<ws, ws_close, receive_task, received, n_inbound>>
    /\ TtsFrame

InitTts ==
    /\ mode = "tts" /\ audio_len = 0
    /\ ws = "open" /\ ws_close = "none" /\ sent = <<>>
    /\ send_task = NewTask
    /\ receive_task = [NewTask EXCEPT !.pc = "recv"]
    /\ stream_closed = FALSE /\ finalized = FALSE
    /\ shield = [exc |-> NoShield, fin |-> NoShield]
    /\ transcript = <<>> /\ received = <<>> /\ n_inbound = 0
    /\ main = [NewTask EXCEPT !.pc = "gather"]
    /\ cancelled = FALSE /\ gather_exc = "none" /\ shutdown = "none" /\ n_cancels = 0
    /\ audio_queue = <<>> /\ ready = <<>> /\ stop_event = FALSE
    /\ produced = 0 /\ sigints = 0
    /\ rtf = 1 /\ now = 0 /\ start_time = 0 /\ wake = 0
    /\ message = NoMessage /\ packed = NoMessage /\ unpacked = NoMessage
    /\ show_vad = FALSE /\ speech_started = FALSE /\ printed = <<>>
    /\ output_queue = <<>> /\ output_audio_task = [pc |-> "get", result |-> "none"]
    /\ frames = <<>> /\ wav = NoFile

NextTts == TtsServerFrame \/ ServerClose \/ TtsRecvClosed \/ OutputGet

\* The event loop resumes a task that can run.
SpecTts ==
    InitTts /\ [][NextTts]_vars /\ WF_vars(TtsRecvClosed) /\ WF_vars(OutputGet)

\* ------------------------------------------------------------ properties
IsPrefix(a, b) == Len(a) <= Len(b) /\ \A i \in 1 .. Len(a) : a[i] = b[i]
IsSource(f) == f.type = "Audio" /\ f.pcm > 0

\* what the sender wrote: everything but close frames
SenderFrames == SelectSeq(sent, LAMBDA f : f.type # "Close")
SourceCount(seq) == Cardinality({i \in 1 .. Len(seq) : IsSource(seq[i])})

\* ceil(len(audio) / FRAME_SIZE)
NumBlocks == (audio_len + FRAME_SIZE - 1) \div FRAME_SIZE

FullTrailer == [k \in 1 .. TrailerLen |-> IF k = K_PRE + 1 THEN marker_msg ELSE Silence]
ExpectedStream == <<Silence>> \o [b \in 1 .. NumBlocks |-> Audio(b)] \o FullTrailer

\* the frames the sender wrote after its last source block (file mode: after
\* the lead-in when there is no source block)
LastSource ==
    LET src == {i \in 1 .. Len(SenderFrames) : IsSource(SenderFrames[i])}
    IN IF src # {} THEN CHOOSE i \in src : \A j \in src : j <= i
       ELSE IF mode = "file" /\ SenderFrames # <<>> THEN 1 ELSE 0
TrailerTail == SubSeq(SenderFrames, LastSource + 1, Len(SenderFrames))

\* C1: file mode, no cancellation, connection open until the sender is done:
\* the sender writes 1 lead-in silence, the N = ceil(len/FRAME_SIZE) source
\* blocks in order, 5 silence, 1 Marker, 35 silence, and nothing else.
C1_FrameSequence ==
    (mode = "file" /\ n_cancels = 0) =>
        /\ IsPrefix(SenderFrames, ExpectedStream)
        /\ (Done(send_task) /\ ws = "open") =>
               /\ SenderFrames = ExpectedStream
               /\ Len(SenderFrames) = 1 + NumBlocks + K_PRE + 1 + K_POST
               /\ send_task.result = "ok"

C1_Witness ==
    /\ mode = "file" /\ n_cancels = 0 /\ Done(send_task) /\ ws = "open"
    /\ NumBlocks >= 2 /\ audio_len % FRAME_SIZE # 0
    /\ Len(SenderFrames) = 1 + NumBlocks + K_PRE + 1 + K_POST

\* C2: file mode, under every interleaving of cancellations with the sender,
\* at most one Marker and at most 5 + 35 trailer silence frames are sent.
C2_AtMostOneTrailer ==
    mode = "file" =>
        /\ Count(sent, marker_msg) <= 1
        /\ Count(sent, Silence) <= 1 + K_PRE + K_POST

\* the except handler of send_messages was entered from the streaming loop
\* (send_task.k counts the frames of a directly awaited trailer)
CancelledWhileStreaming == shield.exc.st # "none" /\ send_task.k = 0

\* C3: a sender cancelled while streaming source blocks has sent the
\* complete trailer when it terminates with the connection still open.
C3_TrailerBeforeExit ==
    (Done(send_task) /\ CancelledWhileStreaming /\ ws = "open") =>
        TrailerTail = FullTrailer

\* C4: the frames sent after the last source block are the trailer, never
\* restarted: at any time a prefix of 5 silence, Marker, 35 silence.
C4_TrailerNotRestarted == IsPrefix(TrailerTail, FullTrailer)

\* C5: when the session has ended after the connection was opened, the close
\* frame (1000, WS_CLOSE_REASON) was sent exactly once, or not at all when
\* the connection was closed by the peer and the client sent no close frame.
SessionEnded == Done(main) /\ shutdown \in {"done", "failed"}
C5_CloseExactlyOnce ==
    (SessionEnded /\ ws # "connecting") =>
        \/ Count(sent, CloseFrame(WS_CLOSE_REASON)) = 1
        \/ Count(sent, CloseFrame(WS_CLOSE_REASON)) + Count(sent, CloseFrame("")) = 0

\* C6: stream_audio does not end (CancelledError does not leave it) before
\* the shutdown sequence it started has run to completion.
C6_ShutdownShielded ==
    (Done(main) /\ shutdown # "none") => shutdown = "done"

\* C7: once a cancellation has been requested the sender sends no further
\* source audio block.
C7_NoSourceAfterCancel ==
    [][n_cancels > 0 => SourceCount(sent') = SourceCount(sent)]_vars


\* ------------------------------------------------------------ transcript
HasType(f, ty) == ~Malformed(f) /\ f.type = ty
WordIdx == {i \in 1 .. Len(received) : HasType(received[i], "Word")}
\* the index in `received` of the k-th Word
NthWord(k) == CHOOSE i \in WordIdx : Cardinality({j \in WordIdx : j <= i}) = k
\* the EndWord frames that arrived after the Word at i and before the next Word
EndWordsOf(i) ==
    {j \in (i + 1) .. Len(received) :
        /\ HasType(received[j], "EndWord")
        /\ \A w \in WordIdx : ~(i < w /\ w < j)}
Latest(S) == CHOOSE j \in S : \A x \in S : x <= j
ExpectedEntry(i) ==
    [text |-> received[i].text,
     timestamp |-> <<received[i].start_time,
                     IF EndWordsOf(i) = {} THEN received[i].start_time
                     ELSE received[Latest(EndWordsOf(i))].stop_time>>]

\* only Word, EndWord, Step and a final Marker have arrived
ClaimedFrames ==
    \A i \in 1 .. Len(received) :
        \/ HasType(received[i], "Word") \/ HasType(received[i], "EndWord")
        \/ HasType(received[i], "Step") \/ HasType(received[i], "Marker")

C9_EndWordOnEmpty ==
    [][(/\ transcript = <<>>
        /\ Len(received') = Len(received) + 1
        /\ HasType(received'[Len(received')], "EndWord"))
       => (/\ transcript' = <<>>
           /\ receive_task'.pc = "recv"
           /\ receive_task'.result = "none")]_vars

\* an EndWord came first, and the frames after it were handled as usual
C9_Witness ==
    /\ Len(received) = 3
    /\ received[1] = EndWordFrame(1)
    /\ received[2] = WordFrame("hi", 1)
    /\ received[3] = EndWordFrame(2)
    /\ transcript = <<[text |-> "hi", timestamp |-> <<1, 2>>]>>

WordsNonDecreasing ==
    \A i, j \in WordIdx : i <= j => received[i].start_time <= received[j].start_time

\* C10: when the Word frames arrive with non-decreasing start_time, the
\* transcript is non-decreasing in start_time at every point of the session.
C10_Monotone ==
    WordsNonDecreasing =>
        \A a, b \in 1 .. Len(transcript) :
            a <= b => transcript[a].timestamp[1] <= transcript[b].timestamp[1]

C10_Witness ==
    /\ WordsNonDecreasing
    /\ Len(transcript) = 3
    /\ transcript[1].timestamp[1] < transcript[3].timestamp[1]
    /\ Done(receive_task) /\ receive_task.result = "ok"


TaskFailed(t) == Done(t) /\ ~Suppressed(t.result)
TaskCancelled(t) == Done(t) /\ t.result = "CancelledError"

\* C12: when file-mode stream_audio ends, it returns the transcript only if
\* neither task failed and no cancellation was requested; if a task ended
\* with an error it raises that error, the sender's first; otherwise, if a
\* cancellation was requested or a task ended cancelled, it raises
\* CancelledError.
C12_Outcomes ==
    [][(mode = "file" /\ main.pc \in {"finally", "aexit"} /\ Done(main'))
       => /\ main'.result = "ok" =>
                 /\ ~TaskFailed(send_task') /\ ~TaskFailed(receive_task')
                 /\ n_cancels' = 0
          /\ TaskFailed(send_task') => main'.result = send_task'.result
          /\ (~TaskFailed(send_task') /\ TaskFailed(receive_task'))
                 => main'.result = receive_task'.result
          /\ (/\ ~TaskFailed(send_task') /\ ~TaskFailed(receive_task')
              /\ (n_cancels' > 0 \/ TaskCancelled(send_task')
                                 \/ TaskCancelled(receive_task')))
                 => main'.result = "CancelledError"]_vars


\* C13: a sender that finds the connection closed when it sends a source
\* block or a trailer frame (the lead-in was sent) stops and returns
\* normally: the send task does not end with ConnectionClosed, and the
\* session does not end with it when the receiver did not raise it.
C13_SenderReturnsOnClosed ==
    /\ (Done(send_task) /\ SenderFrames # <<>>) => send_task.result # "ConnectionClosed"
    /\ (Done(main) /\ main.result = "ConnectionClosed")
           => receive_task.result = "ConnectionClosed"

\* C14: the first frame on the connection is the lead-in silence, never a
\* frame that carries source audio.
C14_LeadInFirst == sent # <<>> => sent[1] = Silence

\* the variants the protocol knows
KnownTypes == {"Audio", "Word", "EndWord", "Step", "Marker"}

\* C15: a frame whose type is not a recognized variant ends the receiver
\* with an error on that frame.
C15_UnknownTypeFatal ==
    [][(/\ Len(received') = Len(received) + 1
        /\ ~Malformed(received'[Len(received')])
        /\ received'[Len(received')].type \notin KnownTypes)
       => TaskFailed(receive_task')]_vars

\* the most recent entry is closed: an EndWord has followed its Word and
\* set a stop_time other than the start_time
LastEntryClosed ==
    /\ WordIdx # {} /\ EndWordsOf(Latest(WordIdx)) # {}
    /\ transcript # <<>>
    /\ transcript[Len(transcript)].timestamp[2] # transcript[Len(transcript)].timestamp[1]

\* C18: an EndWord received while the most recent entry is already closed
\* changes no entry.
C18_EndWordOnClosed ==
    [][(/\ mode = "file" /\ ClaimedFrames /\ LastEntryClosed
        /\ Len(received') = Len(received) + 1
        /\ HasType(received'[Len(received')], "EndWord"))
       => transcript' = transcript]_vars

\* C19: the receiver ends at the first Marker: the Marker is the last frame
\* it consumes and it returns normally; once it has ended the transcript
\* does not change; and a file-mode receiver whose connection was closed
\* normally before any Marker returns normally with the transcript so far.
C19_MarkerEndsReceiver ==
    /\ [](\A i \in 1 .. Len(received) :
             HasType(received[i], "Marker") =>
                 /\ i = Len(received)
                 /\ Done(receive_task) /\ receive_task.result = "ok")
    /\ []((/\ mode = "file" /\ ClaimedFrames /\ Done(receive_task)
           /\ ws = "closed" /\ ws_close = "ok")
          => (/\ receive_task.result = "ok"
              /\ Len(transcript) = Cardinality(WordIdx)))
    /\ [][Done(receive_task) =>
             (transcript' = transcript /\ received' = received)]_vars

\* a Marker arrived while the server could still send frames
C19_Witness ==
    /\ received = <<WordFrame("hi", 1), marker_msg>>
    /\ n_inbound < MaxInbound /\ ws = "open"
    /\ Done(receive_task) /\ receive_task.result = "ok"
    /\ transcript = <<[text |-> "hi", timestamp |-> <<1, 1>>]>>


\* ------------------------------------------------------------ pacing
\* the block a step has just written, 0 when it wrote none or no source block
NewBlock ==
    IF Len(sent') = Len(sent) + 1 /\ IsSource(sent'[Len(sent')])
    THEN sent'[Len(sent')].pcm ELSE 0

\* the pacing schedule: how long after start_time S source samples are due
Due(S) == (S * TICKS_PER_SAMPLE) \div rtf

\* C20: source block k (counted from 0) is sent no earlier than the instant
\* the k * FRAME_SIZE samples sent before it are due; and a sender that is at
\* or past the instant the samples sent so far are due sleeps 1 ms only.
C20_Pacing ==
    /\ [][NewBlock > 0 => now' >= start_time' + Due((NewBlock - 1) * FRAME_SIZE)]_vars
    /\ [][(/\ send_task.pc = "send" /\ send_task'.pc = "sleep"
           /\ now >= start_time + Due(send_task.i + FRAME_SIZE))
          => wake' = now + MS]_vars


\* ------------------------------------------------------------ liveness
\* C16: live mode, connection kept open, fair event loop: once the SIGINT
\* handler has run, the sender eventually leaves its streaming loop and
\* starts the trailer handshake.
C16_StopLeadsToTrailer == (sigints > 0) ~> finalized


\* both tasks terminated, the shutdown sequence run, stream_audio ended
Closed == Done(main) /\ Done(send_task) /\ Done(receive_task) /\ shutdown = "done"

\* C17: under fair scheduling, with a source that ends and a server that
\* answers the Marker, the session eventually reaches Closed; and whenever
\* a task has stopped the coordinator eventually starts the shutdown
\* sequence.
C17_SessionTerminates ==
    /\ <>Closed
    /\ (Done(send_task) \/ Done(receive_task)) ~> (shutdown # "none")


\* ------------------------------------------------------------ trailer and close
\* a trailer coroutine has sent a frame and has not returned
TrailerInProgress ==
    \/ send_task.pc = "trailer"
    \/ shield.exc.st = "run" \/ shield.fin.st = "run"

\* the step writes the close frame of _close_websocket
ClosesNow ==
    Count(sent', CloseFrame(WS_CLOSE_REASON)) > Count(sent, CloseFrame(WS_CLOSE_REASON))

\* C21: the close frame is sent only when no trailer handshake is in
\* progress and the receiver has stopped.
C21_CloseAfterTrailer ==
    [][ClosesNow => (~TrailerInProgress /\ Done(receive_task))]_vars

\* a trailer coroutine has sent its first frame
TrailerStarted == send_task.k > 0 \/ shield.exc.k > 0 \/ shield.fin.k > 0

\* coroutines of send_messages that are suspended in a send
SendingCoroutines ==
    (IF send_task.pc \in {"leadin", "send", "trailer"} THEN 1 ELSE 0)
        + (IF shield.exc.st = "run" THEN 1 ELSE 0)
        + (IF shield.fin.st = "run" THEN 1 ELSE 0)

Marks(p) == {i \in DOMAIN p : p[i] = PAUSE_MARK}
HighStep(f) ==
    /\ ~IsText(f) /\ ~Malformed(f) /\ f.type = "Step"
    /\ f.prs[PAUSE_PREDICTION_HEAD_INDEX + 1] > PAUSE_LEVEL
WordTexts(r) ==
    LET w == SelectSeq(r, LAMBDA f : ~IsText(f) /\ ~Malformed(f) /\ f.type = "Word")
    IN [i \in DOMAIN w |-> w[i].text]
PrintedWords == SelectSeq(printed, LAMBDA x : x \in Texts)

\* the step prints the pause indicator
PrintsMark == Len(printed') > Len(printed) /\ printed'[Len(printed')] = PAUSE_MARK

\* C23: the live receiver prints the pause indicator only on a Step whose
\* prs[2] exceeds 0.5 while speech is active and show_vad is on; a Word was
\* printed before every indicator and between any two indicators, the words
\* printed being those of the Word frames received.
C23_PauseIndicator ==
    /\ [][PrintsMark => /\ show_vad /\ speech_started
                        /\ HighStep(received'[Len(received')])]_vars
    /\ [](PrintedWords = WordTexts(received))
    /\ [](\A i \in Marks(printed) : i > 1 /\ printed[i - 1] \in Texts)
    /\ [](~show_vad => Marks(printed) = {})

\* two indicators printed, and two high-probability Steps in a row received
C23_Witness ==
    /\ Cardinality(Marks(printed)) = 2
    /\ \E i \in 1 .. Len(received) - 1 : HighStep(received[i]) /\ HighStep(received[i + 1])

\* ------------------------------------------------------------ capture queue
\* the captured blocks sent so far, by block number
SentBlocks ==
    LET a == SelectSeq(sent, IsSource) IN [i \in DOMAIN a |-> a[i].pcm]
Increasing(q) == \A i, j \in DOMAIN q : i < j => q[i] < q[j]
QueuedBlocks == SelectSeq(audio_queue, LAMBDA b : b > 0)
ReadyBlocks ==
    LET r == SelectSeq(ready, LAMBDA c : c.op = "put" /\ c.item > 0)
    IN [i \in DOMAIN r |-> r[i].item]

\* C24: the captured blocks sent are in the order the callback produced
\* them, each at most once; so are the blocks sent, then queued, then handed
\* over to the loop, and the callback changes the queue in no step of its own.
C24_CaptureOrder ==
    /\ [](Increasing(SentBlocks \o QueuedBlocks \o ReadyBlocks))
    /\ [][produced' # produced => audio_queue' = audio_queue]_vars
    /\ [][sigints' # sigints => audio_queue' = audio_queue /\ stop_event' = stop_event]_vars

\* three blocks sent, the second one while the third was queued behind it
C24_Witness == SentBlocks = <<1, 2, 3>>

\* a capacity that the blocks produced here can exceed while one is being sent
QueueCapacity == MaxBurst - 2

\* C25: the capture queue is bounded: while the sender is suspended in a
\* send, the number of queued blocks stays within a fixed capacity.
C25_QueueBounded == send_task.pc = "send" => Len(QueuedBlocks) <= QueueCapacity

\* ------------------------------------------------------------ finish_stream
\* a finish_stream invocation that finds finalized set takes its step
ReturnsAtOnce(s) ==
    finalized /\ shield[s].st = "start" /\ shield'[s] # shield[s]

\* C26: the body of finish_stream runs at most once per live session: the
\* flag is never reset, an invocation that finds it set returns without
\* sending, and at most one Marker and 40 silence frames are sent.
C26_FinishOnce ==
    /\ [][finalized => finalized']_vars
    /\ [][\A s \in {"exc", "fin"} :
            ReturnsAtOnce(s) => sent' = sent /\ shield'[s] = [st |-> "done", k |-> 0]]_vars
    /\ [](~(shield.exc.k > 0 /\ shield.fin.k > 0))
    /\ [](Count(sent, marker_msg) <= 1 /\ Count(sent, Silence) <= K_PRE + K_POST)

\* the whole trailer sent by the first invocation while the sender, cancelled
\* again, made a second one that returned
C26_Witness ==
    /\ mode = "mic" /\ n_cancels = 2
    /\ shield.exc = [st |-> "done", k |-> TrailerLen] /\ shield.fin.st = "done"
    /\ Count(sent, marker_msg) = 1 /\ Count(sent, Silence) = K_PRE + K_POST

\* ------------------------------------------------------------ stop signal
\* the sender, resumed from a send with stop_event set, takes its step
ObservesStop ==
    /\ stop_event /\ send_task.pc = "send" /\ ~send_task.must_cancel
    /\ send_task'.pc # send_task.pc

\* C27: once stop_event is set the sender sends at most one further captured
\* block; when it observes the stop it empties the queue and sends none of
\* what it held; and no block is handed over by the callback any more.
C27_StopDiscards ==
    /\ \A n \in 0 .. MaxBurst :
           [](stop_event /\ SourceCount(sent) = n => [](SourceCount(sent) <= n + 1))
    /\ [][ObservesStop => /\ audio_queue' = <<>> /\ sent' = sent
                          /\ send_task'.pc \notin {"get", "send"}]_vars
    /\ [][stop_event => /\ produced' = produced
                        /\ Len(ReadyBlocks') <= Len(ReadyBlocks)
                        /\ Len(QueuedBlocks') + Len(ReadyBlocks')
                               <= Len(QueuedBlocks) + Len(ReadyBlocks)]_vars

\* the sender has ended after the stop with one block sent: the two blocks
\* queued behind it were discarded
C27_Witness ==
    /\ stop_event /\ Done(send_task) /\ produced = 3
    /\ SentBlocks = <<1>> /\ audio_queue = <<>> /\ ready = <<>>
    /\ Count(sent, marker_msg) = 1

\* ------------------------------------------------------------ single cancellation
\* file mode: one cancellation so far, delivered at the first await of the
\* gather future
SingleCancel == mode = "file" /\ n_cancels = 1 /\ cancelled

\* the step requests the cancellation of a task
CancelsTask ==
    \/ send_task'.must_cancel /\ ~send_task.must_cancel
    \/ receive_task'.must_cancel /\ ~receive_task.must_cancel

\* C28: file mode, one external cancellation while stream_audio awaits the
\* tasks: neither task is cancelled, the sender sends every block and the
\* whole trailer, the shutdown sequence starts only when both tasks have
\* ended, and stream_audio raises CancelledError with the connection closed;
\* a task is cancelled only after a second cancellation.
C28_SingleCancel ==
    /\ [](SingleCancel =>
            /\ ~send_task.must_cancel /\ ~receive_task.must_cancel
            /\ ~TaskCancelled(send_task) /\ ~TaskCancelled(receive_task)
            /\ shutdown # "none" => GatherAllDone
            /\ (Done(send_task) /\ ws = "open") => SenderFrames = ExpectedStream
            /\ Done(main) =>
                   /\ ws = "closed" /\ shutdown = "done"
                   /\ (~TaskFailed(send_task) /\ ~TaskFailed(receive_task))
                          => main.result = "CancelledError")
    /\ [][(mode = "file" /\ CancelsTask) => n_cancels >= 2]_vars

\* cancelled once with source blocks to send: every block, the trailer and the
\* Marker echo went through, then the close frame, then CancelledError
C28_Witness ==
    /\ SingleCancel /\ Done(main) /\ main.result = "CancelledError"
    /\ NumBlocks >= 2 /\ SenderFrames = ExpectedStream
    /\ receive_task.result = "ok" /\ Count(received, marker_msg) = 1
    /\ Count(sent, CloseFrame(WS_CLOSE_REASON)) = 1

\* ------------------------------------------------------------ receiver failure
\* the receiver failed and no cancellation came from outside
ReceiverFailed == n_cancels = 0 /\ TaskFailed(receive_task)

\* C29: after a receiver failure the file client does not cancel the
\* sender: the shutdown sequence starts when the sender is done, and the
\* receiver's error is raised unless the sender failed too.  The live client
\* starts the shutdown sequence while the sender runs: it cancels the sender,
\* and the close frame is sent after the sender has ended with the whole
\* trailer sent.
C29_ReceiverFailure ==
    /\ []((mode = "file" /\ ReceiverFailed) =>
            /\ ~send_task.must_cancel /\ ~TaskCancelled(send_task)
            /\ shutdown # "none" => Done(send_task)
            /\ (Done(main) /\ ~TaskFailed(send_task))
                   => main.result = receive_task.result)
    /\ [][(mode = "mic" /\ ReceiverFailed /\ shutdown = "start" /\ shutdown' # "start"
           /\ ~Done(send_task)) => send_task'.must_cancel]_vars
    /\ [][(mode = "mic" /\ ReceiverFailed /\ ClosesNow)
           => /\ Done(send_task) /\ ~TrailerInProgress
              /\ TrailerTail = FullTrailer]_vars

\* ------------------------------------------------------------ TTS output
\* everything put on output_queue so far: what output_audio dequeued, then
\* what is still queued
Dequeued ==
    frames \o (IF output_audio_task.pc = "done" THEN <<EndOfAudio>> ELSE <<>>)
AllPut == Dequeued \o output_queue
AudioPut == SelectSeq(AllPut, LAMBDA x : x # EndOfAudio)
\* the pcm of the Audio frames received, as float32 arrays, in arrival order
AudioReceived ==
    LET a == SelectSeq(received,
                       LAMBDA f : ~IsText(f) /\ ~Malformed(f) /\ f.type = "Audio")
    IN [i \in DOMAIN a |-> AsFloat32(a[i].pcm)]
Sentinels == {i \in DOMAIN AllPut : AllPut[i] = EndOfAudio}

\* C30: the TTS receiver queues the pcm of every Audio frame, and of no other
\* frame, in arrival order; it queues one None, last, exactly when the
\* iteration ended on a normal closure; output_audio ends in the step that
\* dequeues the None, only then, and eventually; the file it writes is the
\* dequeued frames concatenated in order.
C30_TtsOutput ==
    /\ [](AudioPut = AudioReceived)
    /\ [](Sentinels = IF receive_task.result = "ok" THEN {Len(AllPut)} ELSE {})
    /\ [](receive_task.result = "ok" => ws = "closed" /\ ws_close = "ok")
    /\ [][output_audio_task'.pc = "done" /\ output_audio_task.pc # "done"
           <=> /\ output_audio_task.pc = "get" /\ output_queue # <<>>
               /\ Head(output_queue) = EndOfAudio
               /\ output_queue' = Tail(output_queue)]_vars
    /\ [](wav # NoFile => /\ output_audio_task.pc = "done"
                           /\ wav = [samples |-> Concatenate(AudioReceived)])
    /\ [](output_audio_task.pc = "done" /\ frames # <<>>
           => wav = [samples |-> Concatenate(frames)])
    /\ (Sentinels # {} ~> output_audio_task.pc = "done")

\* two different Audio frames with an ignored frame between them were
\* written to the file in arrival order after a normal closure
C30_Witness ==
    /\ output_audio_task = [pc |-> "done", result |-> "ok"]
    /\ Len(received) = 3 /\ received[2] = UnknownFrame
    /\ wav = [samples |-> <<F32_STEP, 0, 0>>]

====
